---------------------------- MODULE Spec2Model ----------------------------
(***************************************************************************)
(* A model of libmultipart's multipart/form-data parser (src/multipart.c). *)
(*                                                                         *)
(* Bytes are integers 0..255.  The request buffer is `data`: the first     *)
(* `size` bytes are the body handed to multipart_parse_form, the bytes     *)
(* after them (`tail`) are whatever the caller's buffer holds behind the   *)
(* body; behind the tail the memory reads as zero bytes until the mapping  *)
(* ends, where a read faults.  Pointers into the buffer are 0-based        *)
(* offsets from `data`; heap pointers are indices into `heap`, 0 is NULL.  *)
(* One action models one iteration of the parser's main loop.              *)
(***************************************************************************)
EXTENDS Integers, Sequences, FiniteSets, TLC

(***************************************************************************)
(* Bounds of the model.                                                    *)
(***************************************************************************)
\* Longest body, counted in parts.
MaxParts == 2
\* How many times in a row the caller destroys the form.
MaxFreeCalls == 2
\* Most parts of a body of GrowthSpec.
MaxGrowthParts == 4

\* The count of iterations in a row that leave the cursor in place stops here.
MaxStall == 3

\* Longest boundary token handed to the boundary extractors.
MaxTokenLen == 2
\* Two build settings of multipart.h (#ifndef, overridable with -D), set
\* small so that a body of MaxParts parts reaches the reallocation of the
\* fields array and the size limit: the header's defaults are 16 fields and
\* 10 * 1024 * 1024 bytes.
INITIAL_FIELD_CAPACITY == 1
MAX_FILE_SIZE == 12

(***************************************************************************)
(* Program constants.                                                      *)
(***************************************************************************)
\* #define INITIAL_FILE_CAPACITY 2
INITIAL_FILE_CAPACITY == 2

(***************************************************************************)
(* Bytes and the string literals of the source.                            *)
(***************************************************************************)
NUL == 0
CR == 13
LF == 10
DASH == 45
DQUOTE == 34

\* "Content-Disposition:"
TokContentDisposition == <<67, 111, 110, 116, 101, 110, 116, 45, 68, 105, 115, 112, 111, 115, 105, 116, 105, 111, 110, 58>>
\* "name=\""
TokName == <<110, 97, 109, 101, 61, 34>>
\* "\"; filename=\""
TokQuoteFilename == <<34, 59, 32, 102, 105, 108, 101, 110, 97, 109, 101, 61, 34>>
\* "; filename=\""
TokFilename == <<59, 32, 102, 105, 108, 101, 110, 97, 109, 101, 61, 34>>
\* "Content-Type: "
TokContentType == <<67, 111, 110, 116, 101, 110, 116, 45, 84, 121, 112, 101, 58, 32>>
\* "\r\n--"
TokCRLFDashDash == <<13, 10, 45, 45>>

\* A null heap pointer, and a null pointer into the request buffer.
NULL == 0
NullPtr == -1

(***************************************************************************)
(* The inputs: bodies as a browser lays them out, built from parts.        *)
(***************************************************************************)
CRLF == <<CR, LF>>

\* The delimiter "--X" as multipart_parse_boundary returns it.
Delimiter == <<DASH, DASH, 88>>

\* " form-data; name=\""
TokFormDataName == <<32, 102, 111, 114, 109, 45, 100, 97, 116, 97, 59, 32, 110, 97, 109, 101, 61, 34>>

FieldPart(n, v) == [kind |-> "field", name |-> n, value |-> v]

\* "a", "b"
NameA == <<97>>
NameB == <<98>>

\* A file part: the parts named "a" carry filename="f" and Content-Type: t,
\* the parts named "b" filename="g" and Content-Type: u.
FilePart(n, c, e) ==
    [kind |-> "file", name |-> n,
     filename |-> IF n = NameA THEN <<102>> ELSE <<103>>,
     mimetype |-> IF n = NameA THEN <<116>> ELSE <<117>>,
     content |-> c, crlf |-> e]

\* Ten bytes with a zero byte at position 4 and a non-ASCII byte.
TenBytesWithNul == <<1, 2, 3, 4, 0, 6, 7, 8, 9, 200>>
ElevenBytes == <<1, 2, 3, 4, 5, 6, 7, 8, 9, 200, 201>>

PartKinds ==
    { FieldPart(NameA, <<118, 49>>),
      FieldPart(NameA, <<>>),
      FieldPart(NameB, <<119>>),
      FilePart(NameA, <<65>>, TRUE),
      FilePart(NameA, TenBytesWithNul, FALSE),
      FilePart(NameB, <<CR, LF, 200, 0>>, FALSE),
      FilePart(NameA, <<>>, TRUE),
      FilePart(NameB, ElevenBytes, TRUE),
      FilePart(NameA, TenBytesWithNul, TRUE) }

\* The header block of a part, up to and including the blank line.
PartHead(p) ==
    Delimiter \o CRLF \o TokContentDisposition \o TokFormDataName \o p.name
    \o (IF p.kind = "file"
        THEN TokQuoteFilename \o p.filename \o <<DQUOTE>> \o CRLF
             \o TokContentType \o p.mimetype \o CRLF
        ELSE <<DQUOTE>> \o CRLF)
    \o CRLF

\* What lies between the header block and the next delimiter.
PartRegion(p) ==
    IF p.kind = "file"
    THEN p.content \o (IF p.crlf THEN CRLF ELSE <<>>)
    ELSE p.value \o CRLF

PartBytes(p) == PartHead(p) \o PartRegion(p)

RECURSIVE BodyOf(_)
BodyOf(ps) ==
    IF ps = <<>> THEN <<>> ELSE PartBytes(Head(ps)) \o BodyOf(Tail(ps))

\* The closing delimiter line "--X--\r\n".
Closing == Delimiter \o <<DASH, DASH>> \o CRLF

RECURSIVE SeqsUpTo(_, _)
SeqsUpTo(S, n) ==
    IF n = 0 THEN {<<>>}
    ELSE LET shorter == SeqsUpTo(S, n - 1)
         IN  shorter \cup {Append(s, x) : s \in {t \in shorter : Len(t) = n - 1}, x \in S}

\* What the caller's buffer may hold behind the body: nothing (the next byte
\* is zero), one more byte (multipart_test.c passes sizeof(body) - 1), or a
\* stale request left in the buffer.
Tails ==
    { <<>>,
      <<LF>>,
      PartBytes(FilePart(NameB, <<66>>, TRUE)) \o Closing }

Names == {NameA, NameB}

\* A name no part of any body carries.
NameZ == <<122>>

VARIABLES
    parts,        \* the parts the body was built from (never read by the parser)
    closed,       \* whether the body ends with the closing delimiter line
    data,         \* the caller's buffer: the body, then the tail
    size,         \* the size argument: the length of the body
    boundary,     \* the boundary argument
    pc,           \* "start", "loop" (inside the main loop), "done" (returned)
    code,         \* the MultipartCode returned; "SIGSEGV", "SIGABRT" when the
                  \* call ended the process instead
    ptr,          \* const char* ptr, as an offset from data
    state,        \* State state
    key_start,    \* const char* key_start
    value_start,  \* const char* value_start
    key,          \* char* key
    value,        \* char* value
    filename,     \* char* filename
    mimetype,     \* char* mimetype
    header,       \* FileHeader header
    form,         \* MultipartForm* form
    arrays,       \* what the blocks form->files and form->fields hold
    heap,         \* every block malloc has returned during the call
    nfree,        \* calls of multipart_free_form the caller has made
    lookup,       \* the last lookup the caller made and what it returned
    prev,         \* the outcome of the caller's previous parse of the same body
    bcall,        \* the caller's calls of the two boundary extractors
    stall         \* iterations of the main loop, in a row up to now, that
                  \* left ptr where it was

input == <<parts, closed, data, size, boundary>>
locals == <<ptr, state, key_start, value_start, key, value, filename, mimetype, header>>
caller == <<nfree, lookup, prev, bcall>>
vars == <<input, pc, code, locals, form, arrays, heap, caller, stall>>

(***************************************************************************)
(* Reading the buffer.                                                     *)
(***************************************************************************)
\* *(data + i)
Byte(i) == IF i >= 0 /\ i < Len(data) THEN data[i + 1] ELSE NUL

\* strncmp(data + p, tok, strlen(tok)) == 0 and memcmp(data + p, tok, strlen(tok)) == 0,
\* for a tok that holds no zero byte.
Match(p, tok) == \A k \in 1..Len(tok) : Byte(p + k - 1) = tok[k]

\* while (*ptr is in S) ptr++;  S holds no zero byte, so the loop ends at the
\* latest on the first zero byte behind the buffer.
RECURSIVE SkipIn(_, _)
SkipIn(p, S) == IF Byte(p) \in S THEN SkipIn(p + 1, S) ELSE p

\* while (*ptr is not in S) ptr++;  NullPtr when the loop runs off the mapped
\* memory without meeting a byte of S (the read faults).
RECURSIVE ScanTo(_, _)
ScanTo(p, S) ==
    IF p >= Len(data) THEN NullPtr
    ELSE IF data[p + 1] \in S THEN p
    ELSE ScanTo(p + 1, S)

\* while (*ptr == '\r' && *(ptr + 1) == '\n') ptr += 2;
RECURSIVE SkipCRLF(_)
SkipCRLF(p) == IF Byte(p) = CR /\ Byte(p + 1) = LF THEN SkipCRLF(p + 2) ELSE p

\* if (*ptr == '\r' && *(ptr + 1) == '\n') ptr += 2;
SkipOneCRLF(p) == IF Byte(p) = CR /\ Byte(p + 1) = LF THEN p + 2 ELSE p

\* strstr(data + p, tok): the first occurrence in the C string starting at p,
\* NullPtr when there is none before its terminating zero byte.
RECURSIVE StrStr(_, _)
StrStr(p, tok) ==
    IF Byte(p) = NUL THEN NullPtr
    ELSE IF Match(p, tok) THEN p
    ELSE StrStr(p + 1, tok)

\* The first occurrence of needle at an index in p..last, NullPtr when none.
RECURSIVE FindFrom(_, _, _)
FindFrom(p, last, needle) ==
    IF p > last THEN NullPtr
    ELSE IF Match(p, needle) THEN p
    ELSE FindFrom(p + 1, last, needle)

\* memmem(data + p, n, needle, strlen(needle)), for a length n that lies
\* inside the buffer.
MemMem(p, n, needle) == FindFrom(p, p + n - Len(needle), needle)

\* memmem with a length that has wrapped around zero (size_t is unsigned, the
\* model writes the wrapped length as a negative number).  The haystack then
\* reaches beyond every object and the call is undefined: an implementation
\* that computes the end of the haystack first finds nothing, one that counts
\* the length down searches until it finds the needle or leaves the mapped
\* memory (NullPtr with scans = TRUE: the read faults).
MemMemWrapped(p, needle, scans) ==
    IF scans THEN FindFrom(p, Len(data) - Len(needle), needle) ELSE NullPtr

\* A copy that loses the last byte of the string.
RECURSIVE CStrOneShort(_, _)
CStrOneShort(p, n) ==
    IF n <= 1 \/ Byte(p) = NUL THEN <<>> ELSE <<Byte(p)>> \o CStrOneShort(p + 1, n - 1)

\* strncpy(dst, data + p, n); dst[n] = 0: the C string dst then holds.
RECURSIVE CStr(_, _)
CStr(p, n) ==
    IF n <= 0 \/ Byte(p) = NUL THEN <<>> ELSE <<Byte(p)>> \o CStr(p + 1, n - 1)

(***************************************************************************)
(* The heap.  A block is never reused, so a pointer names one block for    *)
(* the whole call; `frees` counts the calls of free() made on it.          *)
(***************************************************************************)
\* The block malloc(n) / strdup returns holds `bytes` once it is filled.
Alloc(h, bytes) == Append(h, [bytes |-> bytes, frees |-> 0])

\* The pointer the next successful malloc returns.
NewPtr(h) == Len(h) + 1

\* free(p); free(NULL) does nothing.
Free(h, p) == IF p = NULL THEN h ELSE [h EXCEPT ![p].frees = @ + 1]

\* free() on each pointer of a sequence, in order.
RECURSIVE FreeAll(_, _)
FreeAll(h, ps) == IF ps = <<>> THEN h ELSE FreeAll(Free(h, Head(ps)), Tail(ps))

\* The C string a heap pointer points to.
Str(h, p) == h[p].bytes

\* FileHeader header = {0};
ZeroHeader ==
    [offset |-> 0, size |-> 0, filename |-> NULL, mimetype |-> NULL, field_name |-> NULL]

\* MultipartForm form = {0};
ZeroForm == [files |-> NULL, num_files |-> 0, fields |-> NULL, num_fields |-> 0]

NoArrays == [files |-> <<>>, fields |-> <<>>, files_cap |-> 0, fields_cap |-> 0]

\* The pointers multipart_free_form passes to free(), in the order of its calls.
RECURSIVE FileStrings(_)
FileStrings(fs) ==
    IF fs = <<>> THEN <<>>
    ELSE <<Head(fs).filename, Head(fs).mimetype, Head(fs).field_name>> \o FileStrings(Tail(fs))

RECURSIVE FieldStrings(_)
FieldStrings(fs) ==
    IF fs = <<>> THEN <<>>
    ELSE <<Head(fs).name, Head(fs).value>> \o FieldStrings(Tail(fs))

FormPointers(f, a) ==
    FileStrings(SubSeq(a.files, 1, f.num_files))
    \o FieldStrings(SubSeq(a.fields, 1, f.num_fields))
    \o <<f.files, f.fields>>

\* A destruction that releases everything and leaves the pointers and the
\* counts of the form as they were.
free_form_keeps_pointers(f, a, h) ==
    [form |-> f, arrays |-> a, heap |-> FreeAll(h, FormPointers(f, a))]

\* multipart_free_form(form): the form, the arrays and the heap it leaves.
multipart_free_form(f, a, h) ==
    [form |-> ZeroForm, arrays |-> NoArrays, heap |-> FreeAll(h, FormPointers(f, a))]

\* const char* multipart_get_field_value(form, name): a heap pointer or NULL.
RECURSIVE FirstField(_, _, _, _)
FirstField(a, h, n, i) ==
    IF i > Len(a) THEN NULL
    ELSE IF Str(h, a[i].name) = n THEN a[i].value
    ELSE FirstField(a, h, n, i + 1)

multipart_get_field_value(f, a, h, n) ==
    FirstField(SubSeq(a.fields, 1, f.num_fields), h, n, 1)

\* A scan that takes the first file whatever its field name.
FirstFileOfAnyName(a, h, n, i) == IF i > Len(a) THEN NULL ELSE i

\* multipart_get_file's loop from index i: the index (from 1) of the entry
\* whose address it returns, NULL when no field_name equals n.
RECURSIVE FirstFile(_, _, _, _)
FirstFile(a, h, n, i) ==
    IF i > Len(a) THEN NULL
    ELSE IF Str(h, a[i].field_name) = n THEN i
    ELSE FirstFile(a, h, n, i + 1)

multipart_get_file(f, a, h, n) ==
    FirstFile(SubSeq(a.files, 1, f.num_files), h, n, 1)

\* A copy loop that fills the result from its end.
RECURSIVE MatchingFilesReversed(_, _, _, _)
MatchingFilesReversed(a, h, n, i) ==
    IF i > Len(a) THEN <<>>
    ELSE MatchingFilesReversed(a, h, n, i + 1)
         \o (IF Str(h, a[i].field_name) = n THEN <<a[i]>> ELSE <<>>)

\* multipart_get_files's second loop from index i: the copies files[0..j).
RECURSIVE MatchingFiles(_, _, _, _)
MatchingFiles(a, h, n, i) ==
    IF i > Len(a) THEN <<>>
    ELSE (IF Str(h, a[i].field_name) = n THEN <<a[i]>> ELSE <<>>)
         \o MatchingFiles(a, h, n, i + 1)

\* multipart_get_files(form, field_name, &count), count holding `count`
\* before the call: the pointer it returns (NULL, or the block malloc hands
\* out, which the caller owns), the array in that block, and what count
\* holds afterwards.
multipart_get_files(f, a, h, n, count, okAlloc) ==
    LET files == MatchingFiles(SubSeq(a.files, 1, f.num_files), h, n, 1)
        num_files == Len(files)
    IN  IF num_files = 0 THEN [ret |-> NULL, files |-> <<>>, count |-> 0]
        ELSE IF ~okAlloc THEN [ret |-> NULL, files |-> <<>>, count |-> count]
        ELSE [ret |-> NewPtr(h), files |-> files, count |-> num_files]

(***************************************************************************)
(* The boundary extractors.  A C string is the sequence of its bytes       *)
(* before the terminator; s[i] of the source is CharAt(s, i).              *)
(***************************************************************************)
CharAt(s, i) == IF i >= 0 /\ i < Len(s) THEN s[i + 1] ELSE NUL

\* tolower() of the C locale, as strncasecmp compares.
ToLower(c) == IF c >= 65 /\ c <= 90 THEN c + 32 ELSE c

\* strncasecmp(s, tok, n) == 0
StrNCaseEq(s, tok, n) ==
    \A i \in 0..(n - 1) :
       \/ ToLower(CharAt(s, i)) = ToLower(CharAt(tok, i))
       \/ \E j \in 0..(i - 1) : CharAt(s, j) = NUL /\ CharAt(tok, j) = NUL

\* strstr(s + p, tok) as an index into s, NullPtr when tok does not occur.
RECURSIVE StrStrIn(_, _, _)
StrStrIn(s, p, tok) ==
    IF p + Len(tok) > Len(s) THEN NullPtr
    ELSE IF \A k \in 1..Len(tok) : CharAt(s, p + k - 1) = tok[k] THEN p
    ELSE StrStrIn(s, p + 1, tok)

\* What a call leaves: the value returned ("true", "false", or "SIGSEGV"
\* when the call ended the process) and the C string in the output buffer,
\* Unwritten when the call has not touched the buffer.
Unwritten == <<NUL>>
Refused == [ret |-> "false", out |-> Unwritten]
Faulted == [ret |-> "SIGSEGV", out |-> Unwritten]

\* if (size <= total_capacity) return false;
BoundaryBufferTooSmall(size_, total_capacity) == size_ <= total_capacity

\* multipart_parse_boundary(body, boundary, size)
multipart_parse_boundary(body, size_) ==
    LET boundary_end == StrStrIn(body, 0, CRLF)
        length == boundary_end
        total_capacity == length + 1
    IN  IF boundary_end = NullPtr THEN Refused
        ELSE IF BoundaryBufferTooSmall(size_, total_capacity) THEN Refused
        ELSE [ret |-> "true", out |-> SubSeq(body, 1, length)]

\* "multipart/form-data"
TokMultipartFormData == <<109, 117, 108, 116, 105, 112, 97, 114, 116, 47, 102, 111, 114, 109, 45, 100, 97, 116, 97>>
\* "boundary="
TokBoundaryEq == <<98, 111, 117, 110, 100, 97, 114, 121, 61>>

\* A header extractor that forgets the prefix.
no_prefix == <<>>

\* const char* prefix = "--";
prefix == <<DASH, DASH>>

\* multipart_parse_boundary_from_header(content_type, boundary, size).  When
\* strstr finds no "boundary=" the source computes start + 9 from a null
\* pointer and a length from the address of content_type, which is
\* undefined: the length comes out as that address (less nine bytes plus
\* the length of the value), so the size check refuses the call unless the
\* capacity is greater than it (fits), and then strncpy reads from address
\* 9 and the call faults.
multipart_parse_boundary_from_header(content_type, size_, fits) ==
    LET prefix_len == Len(prefix)
        total_length == Len(content_type)
        start == StrStrIn(content_type, 0, TokBoundaryEq)
        length == total_length - (start + 9)
    IN  IF ~StrNCaseEq(content_type, TokMultipartFormData, 19) THEN Refused
        ELSE IF start = NullPtr THEN (IF fits THEN Faulted ELSE Refused)
        ELSE IF size_ <= length + prefix_len + 1 THEN Refused
        ELSE [ret |-> "true",
              out |-> prefix \o SubSeq(content_type, start + 10, start + 9 + length)]

(***************************************************************************)
(* What a parse hands to its caller: the code and what the form holds.     *)
(***************************************************************************)
FieldView(h, e) == [name |-> Str(h, e.name), value |-> Str(h, e.value)]

FileView(h, e) ==
    [offset |-> e.offset, size |-> e.size, filename |-> Str(h, e.filename),
     mimetype |-> Str(h, e.mimetype), field_name |-> Str(h, e.field_name)]

Outcome ==
    [code |-> code,
     fields |-> [i \in 1..form.num_fields |-> FieldView(heap, arrays.fields[i])],
     files |-> [i \in 1..form.num_files |-> FileView(heap, arrays.files[i])]]

NoRun == [code |-> "none"]
NoLookup == [fn |-> "none", name |-> <<>>, ret |-> NULL, files |-> <<>>, count |-> 0]

\* A boundary extractor the caller has not called.
NotCalled == [ret |-> "none"]

\* The caller has set up no call of the boundary extractors.
NoBoundaryCall ==
    [token |-> <<>>, body |-> <<>>, header |-> <<>>, capacity |-> 0,
     fromBody |-> NotCalled, fromHeader |-> NotCalled]

(***************************************************************************)
(* The initial state: a body with a zero byte behind it and a              *)
(* zero-initialized form.  ParseAgain puts the other tails behind the body.*)
(***************************************************************************)
Bodies == SeqsUpTo(PartKinds, MaxParts)

\* A delimiter "--Y" that no body contains: the caller's boundary argument
\* when it is not the one the body was written with.
ForeignDelimiter == <<DASH, DASH, 89>>

\* The boundary arguments a body is parsed with: its own delimiter, and for
\* the closed bodies of at most one part also the foreign one and "".
BoundariesFor(ps, cl) ==
    IF cl /\ Len(ps) <= 1 THEN {Delimiter, ForeignDelimiter, <<>>} ELSE {Delimiter}

Init ==
    /\ parts \in Bodies
    /\ closed \in BOOLEAN
    /\ boundary \in BoundariesFor(parts, closed)
    /\ data = BodyOf(parts) \o (IF closed THEN Closing ELSE <<>>)
    /\ size = Len(data)
    /\ pc = "start"
    /\ code = "none"
    /\ ptr = 0
    /\ state = "STATE_BOUNDARY"
    /\ key_start = NullPtr
    /\ value_start = NullPtr
    /\ key = NULL
    /\ value = NULL
    /\ filename = NULL
    /\ mimetype = NULL
    /\ header = ZeroHeader
    /\ form = ZeroForm
    /\ arrays = NoArrays
    /\ heap = <<>>
    /\ nfree = 0
    /\ lookup = NoLookup
    /\ prev = NoRun
    /\ bcall = NoBoundaryCall
    /\ stall = 0

\* The values of the enumeration MultipartCode.
MultipartCode ==
    {"MULTIPART_OK", "MEMORY_ALLOC_ERROR", "INVALID_FORM_BOUNDARY",
     "MAX_FILE_SIZE_EXCEEDED", "NO_FILE_CONTENT_TYPE",
     "NO_FILE_CONTENT_DISPOSITION", "NO_FILE_NAME", "NO_FILE_DATA"}

\* A return that reports a file body without its closing boundary as
\* NO_FILE_DATA.
ReturnNoFileData(c) ==
    pc' = "done" /\ code' = IF c = "INVALID_FORM_BOUNDARY" THEN "NO_FILE_DATA" ELSE c

\* return c;
Return(c) == pc' = "done" /\ code' = c

\* The call faults: a read through a null pointer or off the mapped memory.
Fault ==
    /\ Return("SIGSEGV")
    /\ UNCHANGED <<input, locals, form, arrays, heap, caller>>

\* free() has been called on a block that an earlier call had released
\* already; h0 is the heap before the calls, h the heap after them.
DoubleFreed(h0, h) ==
    \E b \in 1..Len(h) :
       /\ h[b].frees > 1
       /\ (b <= Len(h0) => h[b].frees > h0[b].frees)

\* The calls of free() that lead from heap to h, then return c.  Releasing a
\* block twice is undefined: the allocator aborts the process when it
\* notices, and otherwise the call goes on.
FreeAndReturn(h, c) ==
    /\ heap' = h
    /\ \E noticed \in BOOLEAN :
          IF noticed /\ DoubleFreed(heap, h)
          THEN Return("SIGABRT")
          ELSE Return(c)

\* A failure path: free() on `ps`, multipart_free_form(form), return c.
FailWith(f, a, h, ps, c) ==
    LET r == multipart_free_form(f, a, FreeAll(h, ps))
    IN  /\ form' = r.form
        /\ arrays' = r.arrays
        /\ FreeAndReturn(r.heap, c)
        /\ UNCHANGED <<input, locals, caller>>

(***************************************************************************)
(* multipart_parse_form up to the main loop: the initial allocations.      *)
(***************************************************************************)
ParseStart ==
    /\ pc = "start"
    /\ nfree = 0
    /\ \E okFiles \in BOOLEAN, okFields \in BOOLEAN :
          IF ~okFiles
          THEN /\ form' = [form EXCEPT !.files = NULL]
               /\ Return("MEMORY_ALLOC_ERROR")
               /\ UNCHANGED <<arrays, heap>>
          ELSE IF ~okFields
          THEN /\ form' = [form EXCEPT !.files = NewPtr(heap), !.num_files = 0,
                                       !.fields = NULL]
               /\ arrays' = [arrays EXCEPT !.files_cap = INITIAL_FILE_CAPACITY]
               /\ heap' = Alloc(heap, <<>>)
               /\ Return("MEMORY_ALLOC_ERROR")
          ELSE /\ form' = [files |-> NewPtr(heap), num_files |-> 0,
                           fields |-> NewPtr(heap) + 1, num_fields |-> 0]
               /\ arrays' = [files |-> <<>>, fields |-> <<>>,
                             files_cap |-> INITIAL_FILE_CAPACITY,
                             fields_cap |-> INITIAL_FIELD_CAPACITY]
               /\ heap' = Alloc(Alloc(heap, <<>>), <<>>)
               /\ pc' = "loop"
               /\ code' = code
    /\ UNCHANGED <<input, locals, caller>>
    /\ stall' = 0

\* while (*ptr != '\0') switch (state) { case s: ...
InState(s) == pc = "loop" /\ Byte(ptr) # NUL /\ state = s

(***************************************************************************)
(* case STATE_BOUNDARY                                                     *)
(***************************************************************************)
\* What one iteration of the main loop does to the count of iterations that
\* left the cursor in place.
Stalled ==
    stall' = IF pc' = "loop" /\ ptr' = ptr
             THEN (IF stall < MaxStall THEN stall + 1 ELSE stall)
             ELSE 0

\* A step that leaves the cursor on a byte that does not start the boundary.
BoundaryStays ==
    /\ InState("STATE_BOUNDARY")
    /\ IF Match(ptr, boundary)
       THEN /\ state' = "STATE_HEADER"
            /\ ptr' = SkipIn(ptr + Len(boundary), {DASH, CR, LF})
       ELSE /\ ptr' = ptr
            /\ state' = state
    /\ UNCHANGED <<input, pc, code, key_start, value_start, key, value, filename,
                   mimetype, header, form, arrays, heap, caller>>
    /\ Stalled

\* A step that goes from the delimiter straight to the part's name.
BoundaryToKey ==
    /\ InState("STATE_BOUNDARY")
    /\ IF Match(ptr, boundary)
       THEN /\ state' = "STATE_KEY"
            /\ ptr' = SkipIn(ptr + Len(boundary), {DASH, CR, LF})
       ELSE /\ ptr' = ptr + 1
            /\ state' = state
    /\ UNCHANGED <<input, pc, code, key_start, value_start, key, value, filename,
                   mimetype, header, form, arrays, heap, caller>>
    /\ Stalled

Boundary ==
    /\ InState("STATE_BOUNDARY")
    /\ IF Match(ptr, boundary)
       THEN /\ state' = "STATE_HEADER"
            /\ ptr' = SkipIn(ptr + Len(boundary), {DASH, CR, LF})
       ELSE /\ ptr' = ptr + 1
            /\ state' = state
    /\ UNCHANGED <<input, pc, code, key_start, value_start, key, value, filename,
                   mimetype, header, form, arrays, heap, caller>>
    /\ Stalled

(***************************************************************************)
(* case STATE_HEADER                                                       *)
(***************************************************************************)
Header ==
    /\ InState("STATE_HEADER")
    /\ IF Match(ptr, TokContentDisposition)
       THEN LET q == StrStr(ptr, TokName)
            IN  IF q = NullPtr
                THEN Fault
                ELSE /\ ptr' = q + Len(TokName)
                     /\ key_start' = q + Len(TokName)
                     /\ state' = "STATE_KEY"
                     /\ UNCHANGED <<input, pc, code, value_start, key, value, filename,
                                    mimetype, header, form, arrays, heap, caller>>
       ELSE /\ ptr' = ptr + 1
            /\ UNCHANGED <<input, pc, code, state, key_start, value_start, key, value,
                           filename, mimetype, header, form, arrays, heap, caller>>
    /\ Stalled

(***************************************************************************)
(* case STATE_KEY                                                          *)
(***************************************************************************)
Key ==
    /\ InState("STATE_KEY")
    /\ IF Byte(ptr) = DQUOTE /\ key_start # NullPtr
       THEN \E okKey \in BOOLEAN :
            IF ~okKey
            THEN FailWith(form, arrays, heap, <<>>, "MEMORY_ALLOC_ERROR")
            ELSE LET k == NewPtr(heap)
                     h1 == Alloc(heap, CStr(key_start, ptr - key_start))
                 IN  IF Match(ptr, TokQuoteFilename)
                     THEN /\ key' = k
                          /\ heap' = h1
                          /\ header' = [header EXCEPT !.field_name = k]
                          /\ ptr' = StrStr(ptr, TokFilename) + Len(TokFilename)
                          /\ key_start' = StrStr(ptr, TokFilename) + Len(TokFilename)
                          /\ state' = "STATE_FILENAME"
                          /\ UNCHANGED <<input, pc, code, value_start, value, filename,
                                         mimetype, form, arrays, caller>>
                     ELSE LET q == ScanTo(ptr, {LF})
                          IN  IF q = NullPtr
                              THEN Fault
                              ELSE /\ key' = k
                                   /\ heap' = h1
                                   /\ ptr' = SkipOneCRLF(q + 1)
                                   /\ value_start' = SkipOneCRLF(q + 1)
                                   /\ state' = "STATE_VALUE"
                                   /\ UNCHANGED <<input, pc, code, key_start, value,
                                                  filename, mimetype, header, form,
                                                  arrays, caller>>
       ELSE /\ ptr' = ptr + 1
            /\ UNCHANGED <<input, pc, code, state, key_start, value_start, key, value,
                           filename, mimetype, header, form, arrays, heap, caller>>
    /\ Stalled

(***************************************************************************)
(* realloc_fields, realloc_files: the capacity asked of realloc.           *)
(***************************************************************************)
\* A store that puts the new entry in front of those the array holds.
StoreInFront(entries, e) == <<e>> \o entries

\* form->fields[form->num_fields] = e and form->files[form->num_files] = e,
\* on the entries the array holds.
Store(entries, e) == Append(entries, e)

realloc_fields_capacity(f) == f.num_fields * 2

\* A reallocation to the number of entries the array holds already.
realloc_files_no_room(f) == f.num_files

realloc_files_capacity(f) == f.num_files * 2

(***************************************************************************)
(* case STATE_VALUE                                                        *)
(***************************************************************************)
\* if (form->num_fields >= INITIAL_FIELD_CAPACITY)
FieldsNeedRealloc(f) == f.num_fields >= INITIAL_FIELD_CAPACITY

\* The end of a field value: "\r\n--" or the boundary.
ValueEnds(p) == Match(p, TokCRLFDashDash) \/ Match(p, boundary)

Value ==
    /\ InState("STATE_VALUE")
    /\ IF ValueEnds(ptr) /\ value_start # NullPtr
       THEN \E okValue \in BOOLEAN, okKeyCopy \in BOOLEAN,
               okValueCopy \in BOOLEAN, okRealloc \in BOOLEAN :
            IF ~okValue
            THEN FailWith(form, arrays, heap, <<key>>, "MEMORY_ALLOC_ERROR")
            ELSE LET v == NewPtr(heap)
                     h1 == Alloc(heap, CStr(value_start, ptr - value_start))
                     key_copy == IF okKeyCopy THEN NewPtr(h1) ELSE NULL
                     h2 == IF okKeyCopy THEN Alloc(h1, Str(h1, key)) ELSE h1
                     value_copy == IF okValueCopy THEN NewPtr(h2) ELSE NULL
                     h3 == IF okValueCopy THEN Alloc(h2, Str(h2, v)) ELSE h2
                 IN  IF key_copy = NULL \/ value_copy = NULL
                     THEN FailWith(form, arrays, h3, <<key, v>>, "MEMORY_ALLOC_ERROR")
                     ELSE IF FieldsNeedRealloc(form) /\ ~okRealloc
                     THEN \* realloc_fields has called multipart_free_form already
                          LET r == multipart_free_form(form, arrays, h3)
                          IN  FailWith(r.form, r.arrays, r.heap, <<key, v>>,
                                       "MEMORY_ALLOC_ERROR")
                     ELSE /\ arrays' =
                               [arrays EXCEPT
                                  !.fields_cap = IF FieldsNeedRealloc(form)
                                                 THEN realloc_fields_capacity(form)
                                                 ELSE @,
                                  !.fields = Store(@, [name |-> key_copy,
                                                       value |-> value_copy])]
                          /\ form' = [form EXCEPT !.num_fields = @ + 1]
                          /\ heap' = FreeAll(h3, <<key, v>>)
                          /\ key' = NULL
                          /\ value' = NULL
                          /\ ptr' = SkipIn(ptr, {CR, LF})
                          /\ state' = "STATE_BOUNDARY"
                          /\ UNCHANGED <<input, pc, code, key_start, value_start,
                                         filename, mimetype, header, caller>>
       ELSE /\ ptr' = ptr + 1
            /\ UNCHANGED <<input, pc, code, state, key_start, value_start, key, value,
                           filename, mimetype, header, form, arrays, heap, caller>>
    /\ Stalled

(***************************************************************************)
(* case STATE_FILENAME                                                     *)
(***************************************************************************)
Filename ==
    /\ InState("STATE_FILENAME")
    /\ IF Byte(ptr) = DQUOTE /\ key_start # NullPtr
       THEN \E okName \in BOOLEAN, okDup \in BOOLEAN :
            IF ~okName
            THEN FailWith(form, arrays, heap, <<key>>, "MEMORY_ALLOC_ERROR")
            ELSE LET fn == NewPtr(heap)
                     h1 == Alloc(heap, CStr(key_start, ptr - key_start))
                     h2 == Alloc(h1, Str(h1, fn))
                     q == ScanTo(ptr, {LF})
                 IN  IF ~okDup
                     THEN FailWith(form, arrays, h1, <<fn, key>>, "MEMORY_ALLOC_ERROR")
                     ELSE IF q = NullPtr
                     THEN Fault
                     ELSE /\ filename' = fn
                          /\ header' = [header EXCEPT !.filename = NewPtr(h1)]
                          /\ heap' = h2
                          /\ ptr' = SkipOneCRLF(q + 1)
                          /\ state' = "STATE_FILE_MIME_HEADER"
                          /\ UNCHANGED <<input, pc, code, key_start, value_start, key,
                                         value, mimetype, form, arrays, caller>>
       ELSE /\ ptr' = ptr + 1
            /\ UNCHANGED <<input, pc, code, state, key_start, value_start, key, value,
                           filename, mimetype, header, form, arrays, heap, caller>>
    /\ Stalled

(***************************************************************************)
(* case STATE_FILE_MIME_HEADER                                             *)
(***************************************************************************)
FileMimeHeader ==
    /\ InState("STATE_FILE_MIME_HEADER")
    /\ IF Match(ptr, TokContentType)
       THEN /\ ptr' = StrStr(ptr, TokContentType) + Len(TokContentType)
            /\ state' = "STATE_MIMETYPE"
       ELSE /\ ptr' = ptr + 1
            /\ state' = state
    /\ UNCHANGED <<input, pc, code, key_start, value_start, key, value, filename,
                   mimetype, header, form, arrays, heap, caller>>
    /\ Stalled

(***************************************************************************)
(* case STATE_MIMETYPE                                                     *)
(***************************************************************************)
\* Where the file's bytes are taken to start: behind the Content-Type line
\* and every CR LF pair that follows it.
BodyStart(lineEnd) == SkipCRLF(lineEnd + 1)

Mimetype ==
    /\ InState("STATE_MIMETYPE")
    /\ LET q == ScanTo(ptr, {CR, LF})
           lineEnd == ScanTo(q, {LF})
       IN  IF q = NullPtr
           THEN Fault
           ELSE \E okMime \in BOOLEAN :
                IF ~okMime
                THEN FailWith(form, arrays, heap, <<key, filename>>, "MEMORY_ALLOC_ERROR")
                ELSE IF lineEnd = NullPtr
                THEN Fault
                ELSE LET m == NewPtr(heap)
                         h1 == Alloc(heap, CStr(ptr, q - ptr))
                         p == BodyStart(lineEnd)
                     IN  /\ value_start' = ptr
                         /\ mimetype' = m
                         /\ header' = [header EXCEPT !.mimetype = m]
                         /\ ptr' = p
                         /\ IF Match(p, boundary)
                            THEN /\ heap' = FreeAll(h1, <<key, filename, m>>)
                                 /\ state' = "STATE_BOUNDARY"
                            ELSE /\ heap' = h1
                                 /\ state' = "STATE_FILE_BODY"
                         /\ UNCHANGED <<input, pc, code, key_start, key, value,
                                        filename, form, arrays, caller>>
    /\ Stalled

(***************************************************************************)
(* case STATE_FILE_BODY                                                    *)
(***************************************************************************)
\* if (form->num_files >= INITIAL_FILE_CAPACITY)
FilesNeedRealloc(f) == f.num_files >= INITIAL_FILE_CAPACITY

\* size_t haystack_len = size - header.offset; negative when it has wrapped.
HaystackLen(offset) == size - offset

\* A size check that rejects a file of exactly MAX_FILE_SIZE bytes.
TooLargeOffByOne(file_size) == file_size >= MAX_FILE_SIZE

\* if (file_size > MAX_FILE_SIZE)
TooLarge(file_size) == file_size > MAX_FILE_SIZE

FileBody ==
    /\ InState("STATE_FILE_BODY")
    /\ \E scans \in BOOLEAN :
       LET offset == ptr
           haystack_len == HaystackLen(offset)
           endptr == IF haystack_len >= 0
                     THEN MemMem(ptr, haystack_len, boundary)
                     ELSE MemMemWrapped(ptr, boundary, scans)
           endpos == endptr
           file_size == endpos - offset
           pending == <<key, filename, mimetype>>
       IN  IF endptr = NullPtr
           THEN IF haystack_len < 0 /\ scans
                THEN Fault
                ELSE FailWith(form, arrays, heap, pending, "INVALID_FORM_BOUNDARY")
           ELSE IF endpos < offset
           THEN FailWith(form, arrays, heap, pending, "INVALID_FORM_BOUNDARY")
           ELSE IF TooLarge(file_size)
           THEN FailWith(form, arrays, heap, pending, "MAX_FILE_SIZE_EXCEEDED")
           ELSE \E okDup \in BOOLEAN, okRealloc \in BOOLEAN :
                IF ~okDup
                THEN FailWith(form, arrays, heap, pending, "MEMORY_ALLOC_ERROR")
                ELSE LET fname == NewPtr(heap)
                         h1 == Alloc(heap, Str(heap, key))
                     IN  IF FilesNeedRealloc(form) /\ ~okRealloc
                         THEN \* realloc_files has called multipart_free_form already
                              LET r == multipart_free_form(form, arrays, h1)
                              IN  FailWith(r.form, r.arrays, r.heap,
                                           pending \o <<fname>>, "MEMORY_ALLOC_ERROR")
                         ELSE /\ arrays' =
                                   [arrays EXCEPT
                                      !.files_cap = IF FilesNeedRealloc(form)
                                                    THEN realloc_files_capacity(form)
                                                    ELSE @,
                                      !.files = Store(@, [header EXCEPT
                                                            !.offset = offset,
                                                            !.size = file_size,
                                                            !.field_name = fname])]
                              /\ form' = [form EXCEPT !.num_files = @ + 1]
                              /\ heap' = h1
                              /\ header' = ZeroHeader
                              /\ ptr' = SkipCRLF(ptr)
                              /\ state' = "STATE_BOUNDARY"
                              /\ UNCHANGED <<input, pc, code, key_start, value_start,
                                             key, value, filename, mimetype, caller>>
    /\ Stalled

(***************************************************************************)
(* The end of the main loop: the clean-up and return MULTIPART_OK.         *)
(***************************************************************************)
Finish ==
    /\ pc = "loop"
    /\ Byte(ptr) = NUL
    /\ FreeAndReturn(FreeAll(heap, <<key, value, filename>>), "MULTIPART_OK")
    /\ UNCHANGED <<input, locals, form, arrays, caller>>
    /\ UNCHANGED stall

(***************************************************************************)
(* The caller: destroying the form, looking a field up, and parsing the    *)
(* same body again with other bytes behind it.                             *)
(***************************************************************************)
FreeFormCall ==
    /\ pc \in {"start", "done"}
    /\ code \notin {"SIGSEGV", "SIGABRT"}
    /\ nfree < MaxFreeCalls
    /\ lookup = NoLookup
    /\ LET r == multipart_free_form(form, arrays, heap)
       IN  /\ form' = r.form
           /\ arrays' = r.arrays
           /\ heap' = r.heap
    /\ nfree' = nfree + 1
    /\ UNCHANGED <<input, pc, code, locals, lookup, prev, bcall>>
    /\ UNCHANGED stall

GetFieldValueCall ==
    /\ pc = "done"
    /\ code = "MULTIPART_OK"
    /\ nfree = 0
    /\ lookup = NoLookup
    /\ \E n \in Names \cup {NameZ} :
          lookup' = [fn |-> "multipart_get_field_value", name |-> n,
                     ret |-> multipart_get_field_value(form, arrays, heap, n),
                     files |-> <<>>, count |-> 0]
    /\ UNCHANGED <<input, pc, code, locals, form, arrays, heap, nfree, prev, bcall>>
    /\ UNCHANGED stall

GetFileCall ==
    /\ pc = "done"
    /\ code = "MULTIPART_OK"
    /\ nfree = 0
    /\ lookup = NoLookup
    /\ \E n \in Names \cup {NameZ} :
          lookup' = [fn |-> "multipart_get_file", name |-> n,
                     ret |-> multipart_get_file(form, arrays, heap, n),
                     files |-> <<>>, count |-> 0]
    /\ UNCHANGED <<input, pc, code, locals, form, arrays, heap, nfree, prev, bcall>>
    /\ UNCHANGED stall

GetFilesCall ==
    /\ pc = "done"
    /\ code = "MULTIPART_OK"
    /\ nfree = 0
    /\ lookup = NoLookup
    /\ \E n \in Names \cup {NameZ}, okAlloc \in BOOLEAN :
          LET r == multipart_get_files(form, arrays, heap, n, 0, okAlloc)
          IN  lookup' = [fn |-> "multipart_get_files", name |-> n,
                         ret |-> r.ret, files |-> r.files, count |-> r.count]
    /\ UNCHANGED <<input, pc, code, locals, form, arrays, heap, nfree, prev, bcall>>
    /\ UNCHANGED stall

ParseAgain ==
    /\ pc = "done"
    /\ prev = NoRun
    /\ nfree = 0
    /\ lookup = NoLookup
    /\ prev' = Outcome
    /\ \E t \in Tails :
          /\ data' = SubSeq(data, 1, size) \o t
          /\ data' # data
    /\ pc' = "start"
    /\ code' = "none"
    /\ ptr' = 0
    /\ state' = "STATE_BOUNDARY"
    /\ key_start' = NullPtr
    /\ value_start' = NullPtr
    /\ key' = NULL
    /\ value' = NULL
    /\ filename' = NULL
    /\ mimetype' = NULL
    /\ header' = ZeroHeader
    /\ form' = ZeroForm
    /\ arrays' = NoArrays
    /\ heap' = <<>>
    /\ UNCHANGED <<parts, closed, size, boundary, nfree, lookup, bcall>>
    /\ stall' = 0

(***************************************************************************)
(* The caller of the boundary extractors, as main() of multipart_test.c   *)
(* calls them: one token, the body that starts with it and the header      *)
(* value that names it, and one output capacity for both calls.            *)
(***************************************************************************)
\* 'X', '-', '='
TokenBytes == {88, DASH, 61}

Tokens == SeqsUpTo(TokenBytes, MaxTokenLen)

\* A body whose first line is "--" and the token, and one with no CR LF.
BodyForms(t) ==
    { <<DASH, DASH>> \o t \o CRLF \o TokContentDisposition,
      <<DASH, DASH>> \o t }

\* "; "
TokSemicolonSpace == <<59, 32>>
\* "Multipart/Form-Data"
TokMultipartFormDataCapitals == <<77, 117, 108, 116, 105, 112, 97, 114, 116, 47, 70, 111, 114, 109, 45, 68, 97, 116, 97>>
\* "text/plain"
TokTextPlain == <<116, 101, 120, 116, 47, 112, 108, 97, 105, 110>>

\* The header value that names the token.
HeaderOf(t) == TokMultipartFormData \o TokSemicolonSpace \o TokBoundaryEq \o t

\* The header values tried: the one that names the token, the same with
\* capitals, another media type, and one with no boundary parameter.
HeaderForms(t) ==
    { HeaderOf(t),
      TokMultipartFormDataCapitals \o TokSemicolonSpace \o TokBoundaryEq \o t,
      TokTextPlain \o TokSemicolonSpace \o TokBoundaryEq \o t,
      TokMultipartFormData }

\* The capacities of the output buffer: from none to more than the longest
\* delimiter and its terminator need.
Capacities == 0..(MaxTokenLen + 5)

BoundaryCalls ==
    UNION { [token : {t}, body : BodyForms(t), header : HeaderForms(t),
             capacity : Capacities, fromBody : {NotCalled}, fromHeader : {NotCalled}]
            : t \in Tokens }

BoundaryInit ==
    /\ bcall \in BoundaryCalls
    /\ stall = 0
    /\ parts = <<>>
    /\ closed = FALSE
    /\ boundary = Delimiter
    /\ data = <<>>
    /\ size = 0
    /\ pc = "start"
    /\ code = "none"
    /\ ptr = 0
    /\ state = "STATE_BOUNDARY"
    /\ key_start = NullPtr
    /\ value_start = NullPtr
    /\ key = NULL
    /\ value = NULL
    /\ filename = NULL
    /\ mimetype = NULL
    /\ header = ZeroHeader
    /\ form = ZeroForm
    /\ arrays = NoArrays
    /\ heap = <<>>
    /\ nfree = 0
    /\ lookup = NoLookup
    /\ prev = NoRun

ParseBoundaryCall ==
    /\ bcall.fromBody = NotCalled
    /\ bcall' = [bcall EXCEPT
                   !.fromBody = multipart_parse_boundary(bcall.body, bcall.capacity)]
    /\ UNCHANGED <<input, pc, code, locals, form, arrays, heap, nfree, lookup, prev>>
    /\ UNCHANGED stall

ParseBoundaryFromHeaderCall ==
    /\ bcall.fromHeader = NotCalled
    /\ \E fits \in BOOLEAN :
          bcall' = [bcall EXCEPT
                      !.fromHeader = multipart_parse_boundary_from_header(
                                         bcall.header, bcall.capacity, fits)]
    /\ UNCHANGED <<input, pc, code, locals, form, arrays, heap, nfree, lookup, prev>>
    /\ UNCHANGED stall

BoundaryNext ==
    \/ ParseBoundaryCall
    \/ ParseBoundaryFromHeaderCall

BoundarySpec == BoundaryInit /\ [][BoundaryNext]_vars

Next ==
    \/ ParseStart
    \/ Boundary
    \/ Header
    \/ Key
    \/ Value
    \/ Filename
    \/ FileMimeHeader
    \/ Mimetype
    \/ FileBody
    \/ Finish
    \/ FreeFormCall
    \/ GetFieldValueCall
    \/ GetFileCall
    \/ GetFilesCall
    \/ ParseAgain

Spec == Init /\ [][Next]_vars

(***************************************************************************)
(* Bodies of many parts of two kinds, a field and a file with a one-byte   *)
(* payload: the appends below, at and above the initial capacities.        *)
(***************************************************************************)
GrowthBodies ==
    SeqsUpTo({FieldPart(NameA, <<118, 49>>), FilePart(NameA, <<65>>, TRUE)}, MaxGrowthParts)

GrowthInit ==
    /\ parts \in GrowthBodies
    /\ closed = TRUE
    /\ boundary = Delimiter
    /\ data = BodyOf(parts) \o (IF closed THEN Closing ELSE <<>>)
    /\ size = Len(data)
    /\ pc = "start"
    /\ code = "none"
    /\ ptr = 0
    /\ state = "STATE_BOUNDARY"
    /\ key_start = NullPtr
    /\ value_start = NullPtr
    /\ key = NULL
    /\ value = NULL
    /\ filename = NULL
    /\ mimetype = NULL
    /\ header = ZeroHeader
    /\ form = ZeroForm
    /\ arrays = NoArrays
    /\ heap = <<>>
    /\ nfree = 0
    /\ lookup = NoLookup
    /\ prev = NoRun
    /\ bcall = NoBoundaryCall
    /\ stall = 0

GrowthSpec == GrowthInit /\ [][Next]_vars

\* The steps of multipart_parse_form.  The call is synchronous: once entered
\* it runs on to its end before its caller does anything else, so the runs
\* of one call are the runs of these steps alone.
ParserNext ==
    \/ ParseStart
    \/ Boundary
    \/ Header
    \/ Key
    \/ Value
    \/ Filename
    \/ FileMimeHeader
    \/ Mimetype
    \/ FileBody
    \/ Finish

FairSpec == Init /\ [][ParserNext]_vars /\ WF_vars(ParserNext)

(***************************************************************************)
(* Where the parts of the body lie, told from the parts themselves.        *)
(***************************************************************************)
\* The offset of the delimiter that opens part k.
PartStart(k) == Len(BodyOf(SubSeq(parts, 1, k - 1)))

\* The offset behind the header block (the blank line) of part k.
RegionStart(k) == PartStart(k) + Len(PartHead(parts[k]))

\* The offset of the delimiter that follows part k.
PartEnd(k) == PartStart(k) + Len(PartBytes(parts[k]))

\* The first occurrence of the boundary at or behind offset p.
NextDelimiter(p) == FindFrom(p, Len(data) - Len(boundary), boundary)

FileParts == {k \in 1..Len(parts) : parts[k].kind = "file"}
FieldParts == {k \in 1..Len(parts) : parts[k].kind = "field"}

\* The call returned a MultipartCode without a failed allocation.
Returned == {"MULTIPART_OK", "INVALID_FORM_BOUNDARY", "MAX_FILE_SIZE_EXCEEDED"}

\* The call returned a code other than MULTIPART_OK.
Failed == {"MEMORY_ALLOC_ERROR", "INVALID_FORM_BOUNDARY", "MAX_FILE_SIZE_EXCEEDED"}

ParsedOk == pc = "done" /\ code = "MULTIPART_OK"

\* The FileHeaders the form holds.
Files == {arrays.files[i] : i \in 1..form.num_files}

\* The body is well formed (every payload is followed by CR LF and the
\* delimiter, the closing delimiter line ends it) and the buffer ends with it.
WellFormed ==
    /\ closed
    /\ Len(data) = size
    /\ \A k \in FileParts : parts[k].crlf

(***************************************************************************)
(* C1: after a parse that returned MULTIPART_OK, every FileHeader of the   *)
(* form has offset + size <= the size argument.                            *)
(***************************************************************************)
C1_SpanInsideBody ==
    ParsedOk => \A e \in Files : e.offset + e.size <= size

(***************************************************************************)
(* C2: after a parse that returned MULTIPART_OK, the span of every         *)
(* FileHeader starts right behind the header block of a file part and ends *)
(* at the next occurrence of the boundary.  Stated for the FileHeaders     *)
(* whose span lies inside the body.                                        *)
(***************************************************************************)
C2_SpanIsPartPayload ==
    ParsedOk =>
       \A e \in Files :
          e.offset + e.size <= size =>
             \E k \in FileParts :
                /\ e.offset = RegionStart(k)
                /\ e.offset + e.size = NextDelimiter(RegionStart(k))

(***************************************************************************)
(* C3: after a parse that returned MULTIPART_OK, the FileHeader recorded   *)
(* for a file part whose payload holds a zero byte or a non-ASCII byte has *)
(* the number of payload bytes as its size.  Stated for the parts whose    *)
(* payload is followed by the delimiter at once, where the payload is all  *)
(* that lies between the header block and the boundary.                    *)
(***************************************************************************)
Binary(c) == \E j \in 1..Len(c) : c[j] = NUL \/ c[j] >= 128

C3_BinarySafeSize ==
    ParsedOk =>
       \A k \in FileParts :
          Binary(parts[k].content) /\ ~parts[k].crlf =>
             \A e \in Files :
                e.offset \in RegionStart(k)..(PartEnd(k) - 1) =>
                   e.size = Len(parts[k].content)

(***************************************************************************)
(* C4: two parses of the same first `size` bytes with the same boundary    *)
(* give the same outcome (code, fields, files, offsets, sizes) whatever    *)
(* the buffer holds behind them.  Stated for parses that returned without  *)
(* a failed allocation.                                                    *)
(***************************************************************************)
C4_TailIndependent ==
    pc = "done" /\ prev # NoRun /\ code \in Returned /\ prev.code \in Returned
       => Outcome = prev

(***************************************************************************)
(* C5: a FILE_BODY step whose computed size (the next boundary minus the   *)
(* cursor) is greater than MAX_FILE_SIZE returns MAX_FILE_SIZE_EXCEEDED    *)
(* and leaves num_files = num_fields = 0; a computed size of MAX_FILE_SIZE *)
(* or less is not rejected; no FileHeader of a successful parse has a size *)
(* above MAX_FILE_SIZE.                                                    *)
(***************************************************************************)
\* Where the search of a FILE_BODY step at the cursor ends: inside the body
\* when the cursor is, anywhere behind the cursor when the length wrapped.
BoundaryFound ==
    IF HaystackLen(ptr) >= 0 THEN MemMem(ptr, HaystackLen(ptr), boundary)
    ELSE NextDelimiter(ptr)

C5_SizeLimitStep ==
    InState("STATE_FILE_BODY") /\ BoundaryFound # NullPtr =>
       IF BoundaryFound - ptr > MAX_FILE_SIZE
       THEN \/ /\ pc' = "done"
               /\ code' = "MAX_FILE_SIZE_EXCEEDED"
               /\ form'.num_files = 0
               /\ form'.num_fields = 0
            \/ HaystackLen(ptr) < 0 /\ code' = "INVALID_FORM_BOUNDARY"
       ELSE code' # "MAX_FILE_SIZE_EXCEEDED"

C5_SizeLimit ==
    /\ [](ParsedOk => \A e \in Files : e.size <= MAX_FILE_SIZE)
    /\ [](pc = "done" /\ code = "MAX_FILE_SIZE_EXCEEDED"
             => form.num_files = 0 /\ form.num_fields = 0)
    /\ [][C5_SizeLimitStep]_vars

\* A field had been stored when the file that follows it was found too large.
C5_Witness ==
    /\ pc = "done"
    /\ code = "MAX_FILE_SIZE_EXCEEDED"
    /\ Len(parts) = 2
    /\ parts[1].kind = "field"
    /\ parts[2].kind = "file"
    /\ Len(PartRegion(parts[2])) > MAX_FILE_SIZE
    /\ form.num_fields = 0
    /\ form.num_files = 0

(***************************************************************************)
(* C6: when the parser has entered FILE_BODY and the boundary does not     *)
(* occur in the remaining size - offset bytes of the body, the call        *)
(* returns INVALID_FORM_BOUNDARY and the form holds no FileHeader of that  *)
(* part.                                                                   *)
(***************************************************************************)
C6_UnterminatedFileBody ==
    /\ pc = "done"
    /\ code \in Returned
    /\ state = "STATE_FILE_BODY"
    /\ ptr <= size
    /\ MemMem(ptr, size - ptr, boundary) = NullPtr
    => /\ code = "INVALID_FORM_BOUNDARY"
       /\ \A e \in Files : e.offset # ptr

(***************************************************************************)
(* C7: when the call has returned a code other than MULTIPART_OK, the form *)
(* holds no storage: files and fields are NULL and both counts are 0.      *)
(***************************************************************************)
C7_FailedParseHoldsNothing ==
    pc = "done" /\ code \in Failed => form = ZeroForm

(***************************************************************************)
(* C8: when the call has returned a code other than MULTIPART_OK, every    *)
(* block it allocated has been released exactly once.  Stated for the      *)
(* failures inside the main loop, behind the two initial allocations.      *)
(***************************************************************************)
C8_NoLeakOnFailure ==
    pc = "done" /\ code \in Failed /\ Len(heap) >= 2
       => \A b \in 1..Len(heap) : heap[b].frees = 1

(***************************************************************************)
(* C9: multipart_free_form on a zero-initialized form changes nothing; on  *)
(* a parsed form it releases each block the form owns exactly once and     *)
(* leaves files = NULL, fields = NULL, num_files = 0, num_fields = 0; every*)
(* later call changes nothing.                                             *)
(***************************************************************************)
\* The blocks the form owns: its two arrays and the strings of its entries.
Owned ==
    {FormPointers(form, arrays)[i] : i \in 1..Len(FormPointers(form, arrays))} \ {NULL}

C9_FreeFormStep ==
    nfree' = nfree + 1 =>
       /\ form' = ZeroForm
       /\ Len(heap') = Len(heap)
       /\ \A b \in 1..Len(heap) :
             IF b \in Owned
             THEN heap[b].frees = 0 /\ heap'[b].frees = 1
             ELSE heap'[b] = heap[b]
       /\ (pc = "start" \/ nfree >= 1 => form = ZeroForm /\ heap' = heap)

C9_IdempotentDestruction == [][C9_FreeFormStep]_vars

\* A form that held a field and a file has been destroyed twice.
C9_Witness ==
    /\ pc = "done"
    /\ code = "MULTIPART_OK"
    /\ nfree = 2
    /\ \E k \in FieldParts : TRUE
    /\ \E k \in FileParts : TRUE
    /\ Cardinality({b \in 1..Len(heap) : heap[b].frees = 1}) >= 7
    /\ form = ZeroForm

(***************************************************************************)
(* C10: for a well-formed body, a successful parse yields num_fields = the *)
(* number of field parts and num_files = the number of file parts with     *)
(* non-empty content, and multipart_get_field_value(form, n) returns the   *)
(* content of the first field part named n.                                *)
(***************************************************************************)
NamedFieldParts(n) == {k \in FieldParts : parts[k].name = n}

FirstFieldPart(n) == CHOOSE k \in NamedFieldParts(n) : \A j \in NamedFieldParts(n) : k <= j

C10_FieldRoundTrip ==
    ParsedOk /\ WellFormed /\ nfree = 0 =>
       /\ form.num_fields = Cardinality(FieldParts)
       /\ form.num_files = Cardinality({k \in FileParts : parts[k].content # <<>>})
       /\ lookup.fn = "multipart_get_field_value" /\ NamedFieldParts(lookup.name) # {} =>
             /\ lookup.ret # NULL
             /\ Str(heap, lookup.ret) = parts[FirstFieldPart(lookup.name)].value

(***************************************************************************)
(* C11: after a parse that returned MULTIPART_OK, every FileHeader whose   *)
(* span starts inside the body starts inside the payload of one file part  *)
(* of the body, and its field_name, filename and mimetype are the name,    *)
(* the filename and the Content-Type value of that very part.              *)
(***************************************************************************)
\* The file part whose payload holds offset p.
PartsAt(p) == {k \in FileParts : RegionStart(k) <= p /\ p <= PartEnd(k)}

C11_FileMetadata ==
    ParsedOk =>
       \A e \in Files :
          e.offset < size =>
             /\ PartsAt(e.offset) # {}
             /\ \A k \in PartsAt(e.offset) :
                   /\ Str(heap, e.field_name) = parts[k].name
                   /\ Str(heap, e.filename) = parts[k].filename
                   /\ Str(heap, e.mimetype) = parts[k].mimetype

\* Two file parts with different names, filenames and types were recorded.
C11_Witness ==
    /\ ParsedOk
    /\ form.num_files = 2
    /\ Len(parts) = 2
    /\ parts[1].name # parts[2].name
    /\ Str(heap, arrays.files[1].filename) = parts[1].filename
    /\ Str(heap, arrays.files[2].mimetype) = parts[2].mimetype
    /\ arrays.files[2].offset < size

(***************************************************************************)
(* C12: for a token T, multipart_parse_boundary on a body whose first line *)
(* is "--" T CR LF and multipart_parse_boundary_from_header on the value   *)
(* "multipart/form-data; boundary=" T, called with the same capacity,      *)
(* return the same value; when they succeed both write "--" T; and both    *)
(* succeed when the capacity is above the length of "--" T and its         *)
(* terminator.                                                             *)
(***************************************************************************)
\* Both extractors have been called, on the body and the header of one token.
BothCalled ==
    /\ bcall.fromBody # NotCalled
    /\ bcall.fromHeader # NotCalled
    /\ bcall.body = <<DASH, DASH>> \o bcall.token \o CRLF \o TokContentDisposition
    /\ bcall.header = HeaderOf(bcall.token)

C12_BoundaryEquivalence ==
    BothCalled =>
       /\ bcall.fromBody.ret = bcall.fromHeader.ret
       /\ bcall.fromBody.ret = "true" =>
             /\ bcall.fromBody.out = bcall.fromHeader.out
             /\ bcall.fromBody.out = <<DASH, DASH>> \o bcall.token
       /\ bcall.capacity > Len(bcall.token) + 3 => bcall.fromBody.ret = "true"

\* Both extractors wrote the delimiter of a token of MaxTokenLen bytes.
C12_Witness ==
    /\ BothCalled
    /\ Len(bcall.token) = MaxTokenLen
    /\ bcall.fromBody.ret = "true"
    /\ bcall.fromHeader.ret = "true"
    /\ bcall.fromHeader.out = <<DASH, DASH>> \o bcall.token

(***************************************************************************)
(* C13: multipart_parse_boundary returns false when the body holds no      *)
(* CR LF, false when the capacity is less than the delimiter length + 1,   *)
(* and true in every other case (a capacity of exactly delimiter length +  *)
(* 1 is enough); on success the output is the bytes before the first       *)
(* CR LF.                                                                  *)
(***************************************************************************)
\* The bytes of s before its first CR LF.
FirstLine(s) == SubSeq(s, 1, StrStrIn(s, 0, CRLF))

C13_ParseBoundaryResult ==
    bcall.fromBody # NotCalled =>
       LET noLine == StrStrIn(bcall.body, 0, CRLF) = NullPtr
       IN  /\ noLine => bcall.fromBody.ret = "false"
           /\ ~noLine /\ bcall.capacity < Len(FirstLine(bcall.body)) + 1
                 => bcall.fromBody.ret = "false"
           /\ ~noLine /\ bcall.capacity >= Len(FirstLine(bcall.body)) + 1
                 => /\ bcall.fromBody.ret = "true"
                    /\ bcall.fromBody.out = FirstLine(bcall.body)

(***************************************************************************)
(* C14: multipart_parse_boundary_from_header returns false, and does not   *)
(* fault, when the value does not begin with "multipart/form-data" in any  *)
(* case of letters, when it holds no "boundary=", and when the capacity is *)
(* less than 2 + token length + 1; in every other case it returns true and *)
(* writes "--" and the token.                                              *)
(***************************************************************************)
\* What follows "boundary=" in the header value s.
TokenOf(s) == SubSeq(s, StrStrIn(s, 0, TokBoundaryEq) + 10, Len(s))

C14_FromHeaderResult ==
    bcall.fromHeader # NotCalled =>
       LET h == bcall.header
           wrongType == \E i \in 1..Len(TokMultipartFormData) :
                           ToLower(CharAt(h, i - 1)) # TokMultipartFormData[i]
           noParam == StrStrIn(h, 0, TokBoundaryEq) = NullPtr
           refused == \/ wrongType
                      \/ noParam
                      \/ bcall.capacity < 2 + Len(TokenOf(h)) + 1
       IN  IF refused
           THEN bcall.fromHeader.ret = "false"
           ELSE /\ bcall.fromHeader.ret = "true"
                /\ bcall.fromHeader.out = <<DASH, DASH>> \o TokenOf(h)

(***************************************************************************)
(* C15: on a form that holds several FileHeaders of one field_name,        *)
(* multipart_get_files returns (when its allocation succeeds) copies of    *)
(* all of them and of no other, count being their number, in the order of  *)
(* the form, which is the order of their payloads in the body;             *)
(* multipart_get_file returns the first of them.                           *)
(***************************************************************************)
\* The indices of the FileHeaders of the form whose field_name is n.
FilesNamed(n) == {i \in 1..form.num_files : Str(heap, arrays.files[i].field_name) = n}

\* The j-th of them, in the order of the form.
NthFileNamed(n, j) ==
    CHOOSE i \in FilesNamed(n) : Cardinality({k \in FilesNamed(n) : k <= i}) = j

FieldsNamed(n) == {i \in 1..form.num_fields : Str(heap, arrays.fields[i].name) = n}

C16_MissStep ==
    lookup' # lookup =>
       /\ UNCHANGED <<form, arrays, heap>>
       /\ lookup'.fn = "multipart_get_field_value" /\ FieldsNamed(lookup'.name) = {}
             => lookup'.ret = NULL
       /\ lookup'.fn = "multipart_get_file" /\ FilesNamed(lookup'.name) = {}
             => lookup'.ret = NULL
       /\ lookup'.fn = "multipart_get_files" /\ FilesNamed(lookup'.name) = {}
             => lookup'.ret = NULL /\ lookup'.count = 0

C16_LookupMiss == [][C16_MissStep]_vars

\* A form with files, none of the name asked for: NULL and a count of 0.
C16_Witness ==
    /\ lookup.fn = "multipart_get_files"
    /\ form.num_files >= 1
    /\ form.num_fields >= 1
    /\ FilesNamed(lookup.name) = {}
    /\ lookup.ret = NULL
    /\ lookup.count = 0

(***************************************************************************)
(* C17: when the boundary occurs nowhere in the first `size` bytes of the  *)
(* body, multipart_parse_form returns a code other than MULTIPART_OK and   *)
(* leaves the form holding no block.                                       *)
(***************************************************************************)
BoundaryNowhere ==
    \A p \in 0..(size - Len(boundary)) : ~Match(p, boundary)

C17_AbsentBoundaryIsFatal ==
    pc = "done" /\ BoundaryNowhere =>
       /\ code # "MULTIPART_OK"
       /\ form.files = NULL
       /\ form.fields = NULL

(***************************************************************************)
(* C18: whenever multipart_parse_form returns, the code is MULTIPART_OK,   *)
(* MEMORY_ALLOC_ERROR, INVALID_FORM_BOUNDARY or MAX_FILE_SIZE_EXCEEDED:    *)
(* none of NO_FILE_CONTENT_TYPE, NO_FILE_CONTENT_DISPOSITION, NO_FILE_NAME *)
(* and NO_FILE_DATA is ever returned.  (A call that the process does not   *)
(* survive returns no code.)                                               *)
(***************************************************************************)
ReservedCodes ==
    {"NO_FILE_CONTENT_TYPE", "NO_FILE_CONTENT_DISPOSITION", "NO_FILE_NAME", "NO_FILE_DATA"}

C18_ClosedResultSet ==
    /\ code \notin ReservedCodes
    /\ prev.code \notin ReservedCodes
    /\ pc = "done" /\ code \in MultipartCode =>
          code \in {"MULTIPART_OK", "MEMORY_ALLOC_ERROR", "INVALID_FORM_BOUNDARY",
                    "MAX_FILE_SIZE_EXCEEDED"}
    /\ pc = "done" => code \in MultipartCode \cup {"SIGSEGV", "SIGABRT"}

\* A file body without its closing boundary, reported as
\* INVALID_FORM_BOUNDARY.
C18_Witness ==
    /\ pc = "done"
    /\ state = "STATE_FILE_BODY"
    /\ code = "INVALID_FORM_BOUNDARY"

(***************************************************************************)
(* C19: a parse starts in STATE_BOUNDARY, and every step of it that        *)
(* changes the state makes one of the ten changes BOUNDARY->HEADER,        *)
(* HEADER->KEY, KEY->VALUE, KEY->FILENAME, FILENAME->FILE_MIME_HEADER,     *)
(* FILE_MIME_HEADER->MIMETYPE, MIMETYPE->FILE_BODY, MIMETYPE->BOUNDARY,    *)
(* FILE_BODY->BOUNDARY, VALUE->BOUNDARY; the form gains a field exactly on *)
(* the steps VALUE->BOUNDARY and a file exactly on the steps               *)
(* FILE_BODY->BOUNDARY, one entry behind those it holds.                   *)
(***************************************************************************)
Transitions ==
    { <<"STATE_BOUNDARY", "STATE_HEADER">>,
      <<"STATE_HEADER", "STATE_KEY">>,
      <<"STATE_KEY", "STATE_VALUE">>,
      <<"STATE_KEY", "STATE_FILENAME">>,
      <<"STATE_FILENAME", "STATE_FILE_MIME_HEADER">>,
      <<"STATE_FILE_MIME_HEADER", "STATE_MIMETYPE">>,
      <<"STATE_MIMETYPE", "STATE_FILE_BODY">>,
      <<"STATE_MIMETYPE", "STATE_BOUNDARY">>,
      <<"STATE_FILE_BODY", "STATE_BOUNDARY">>,
      <<"STATE_VALUE", "STATE_BOUNDARY">> }

FieldAppended ==
    /\ form'.num_fields = form.num_fields + 1
    /\ SubSeq(arrays'.fields, 1, form.num_fields) = SubSeq(arrays.fields, 1, form.num_fields)

FileAppended ==
    /\ form'.num_files = form.num_files + 1
    /\ SubSeq(arrays'.files, 1, form.num_files) = SubSeq(arrays.files, 1, form.num_files)

C19_ParserStep ==
    pc = "loop" =>
       /\ state' # state => <<state, state'>> \in Transitions
       /\ <<state, state'>> = <<"STATE_VALUE", "STATE_BOUNDARY">>
             => FieldAppended /\ form'.num_files = form.num_files
       /\ <<state, state'>> = <<"STATE_FILE_BODY", "STATE_BOUNDARY">>
             => FileAppended /\ form'.num_fields = form.num_fields
       /\ form'.num_fields > form.num_fields
             => <<state, state'>> = <<"STATE_VALUE", "STATE_BOUNDARY">>
       /\ form'.num_files > form.num_files
             => <<state, state'>> = <<"STATE_FILE_BODY", "STATE_BOUNDARY">>

C19_StateMachine ==
    /\ [](pc = "start" => state = "STATE_BOUNDARY")
    /\ [][C19_ParserStep]_vars

\* A parse back in STATE_BOUNDARY behind a field and a file, one entry each.
C19_Witness ==
    /\ pc = "loop"
    /\ state = "STATE_BOUNDARY"
    /\ Len(parts) = 2
    /\ form.num_fields = 1
    /\ form.num_files = 1
    /\ ptr <= size

(***************************************************************************)
(* C20: at every iteration of the main loop the cursor, whose byte the     *)
(* loop condition reads, lies within data[0..size).                        *)
(***************************************************************************)
C20_ScanWithinBody == pc = "loop" => ptr < size

(***************************************************************************)
(* C21, as the claim states it: an iteration of the main loop that leaves  *)
(* the cursor in place is followed by one that advances it.                *)
(***************************************************************************)
C21_NextIterationAdvances == stall <= 1

(***************************************************************************)
(* C21, amended: a call of multipart_parse_form that has entered its main  *)
(* loop ends (it returns, or a fault ends the process), for every body and *)
(* every boundary, the empty one included; at most two iterations in a row *)
(* leave the cursor in place, and with a boundary that is not empty at     *)
(* most one.                                                               *)
(***************************************************************************)
C21_Termination ==
    /\ [](stall <= 2)
    /\ [](boundary # <<>> => stall <= 1)
    /\ (pc = "loop") ~> (pc = "done")

\* A parse with the empty boundary that has returned, a field recorded.
C21_Witness ==
    /\ pc = "done"
    /\ boundary = <<>>
    /\ code = "MULTIPART_OK"
    /\ form.num_fields = 1

(***************************************************************************)
(* C22: a well-formed body that holds a file part without payload (the     *)
(* boundary follows the Content-Type line and its CR LF pairs), whose      *)
(* other file parts are, with the CR LF behind them, within the size limit *)
(* and hold no zero byte, CR or LF, is parsed with MULTIPART_OK unless an  *)
(* allocation fails: no FileHeader is recorded for the empty part, every   *)
(* other part is recorded, and every FileHeader has a size of at least 1.  *)
(***************************************************************************)
EmptyFileParts == {k \in FileParts : parts[k].content = <<>>}

PlainPayload(c) ==
    /\ Len(c) + Len(CRLF) <= MAX_FILE_SIZE
    /\ \A j \in 1..Len(c) : c[j] \notin {NUL, CR, LF}

C22_EmptyFilePartDropped ==
    /\ pc = "done"
    /\ WellFormed
    /\ boundary = Delimiter
    /\ EmptyFileParts # {}
    /\ \A k \in FileParts : PlainPayload(parts[k].content)
    /\ code # "MEMORY_ALLOC_ERROR"
    => /\ code = "MULTIPART_OK"
       /\ form.num_files = Cardinality(FileParts \ EmptyFileParts)
       /\ form.num_fields = Cardinality(FieldParts)
       /\ \A i \in 1..form.num_files : arrays.files[i].size >= 1

(***************************************************************************)
(* C23: during a call of multipart_parse_form, and until its caller        *)
(* destroys the form, free() has been called at most once on every block.  *)
(***************************************************************************)
C23_NoDoubleRelease ==
    nfree = 0 => \A b \in 1..Len(heap) : heap[b].frees <= 1

(***************************************************************************)
(* C24: after multipart_parse_form has returned MULTIPART_OK and the       *)
(* caller has called multipart_free_form once, every block the parse       *)
(* allocated has been released.                                            *)
(***************************************************************************)
C24_NoLeakOnSuccess ==
    pc = "done" /\ code = "MULTIPART_OK" /\ nfree = 1 =>
       \A b \in 1..Len(heap) : heap[b].frees >= 1

(***************************************************************************)
(* C25: a successful parse of a well-formed body, none of whose file parts *)
(* is empty, has recorded every part of the body, the parts behind a file  *)
(* part included, whatever bytes the payloads hold.                        *)
(***************************************************************************)
C25_PartsAfterFile ==
    ParsedOk /\ nfree = 0 /\ WellFormed /\ boundary = Delimiter /\ EmptyFileParts = {} =>
       /\ form.num_files = Cardinality(FileParts)
       /\ form.num_fields = Cardinality(FieldParts)

(***************************************************************************)
(* C26: in a successfully parsed form the files lie in the order of their  *)
(* spans in the body: offsets grow with the index and a span ends at or    *)
(* before the offset of the next one; and the fields are, in their order,  *)
(* field parts of the body in the order of the body.                       *)
(***************************************************************************)
\* s can be had from t by leaving entries of t out.
RECURSIVE IsSubsequence(_, _)
IsSubsequence(s, t) ==
    IF s = <<>> THEN TRUE
    ELSE IF t = <<>> THEN FALSE
    ELSE IF Head(s) = Head(t) THEN IsSubsequence(Tail(s), Tail(t))
    ELSE IsSubsequence(s, Tail(t))

IsFieldPart(p) == p.kind = "field"

\* Name and value of the field parts of the body, in the order of the body.
FieldsOfBody ==
    LET fp == SelectSeq(parts, IsFieldPart)
    IN  [i \in 1..Len(fp) |-> [name |-> fp[i].name, value |-> fp[i].value]]

RecordedFields == [i \in 1..form.num_fields |-> FieldView(heap, arrays.fields[i])]

C26_AppearanceOrder ==
    ParsedOk /\ nfree = 0 =>
       /\ \A i \in 1..(form.num_files - 1) :
             /\ arrays.files[i].offset < arrays.files[i + 1].offset
             /\ arrays.files[i].offset + arrays.files[i].size <= arrays.files[i + 1].offset
       /\ boundary = Delimiter => IsSubsequence(RecordedFields, FieldsOfBody)

\* Two file parts, recorded in the order of the body, each where its
\* payload starts.
C26_Witness ==
    /\ ParsedOk
    /\ nfree = 0
    /\ Len(parts) = 2
    /\ form.num_files = 2
    /\ arrays.files[1].offset = RegionStart(1)
    /\ arrays.files[2].offset = RegionStart(2)
    /\ arrays.files[1].offset + arrays.files[1].size <= arrays.files[2].offset

(***************************************************************************)
(* C27: an append reallocates the storage of its sequence only when the    *)
(* sequence is full (the count equals the capacity), and the reallocation  *)
(* doubles the capacity.                                                   *)
(***************************************************************************)
C27_GrowthStep ==
    pc = "loop" /\ pc' = "loop" =>
       /\ arrays'.fields_cap # arrays.fields_cap =>
             /\ form.num_fields = arrays.fields_cap
             /\ arrays'.fields_cap = 2 * arrays.fields_cap
       /\ arrays'.files_cap # arrays.files_cap =>
             /\ form.num_files = arrays.files_cap
             /\ arrays'.files_cap = 2 * arrays.files_cap

C27_GrowthPolicy == [][C27_GrowthStep]_vars

(***************************************************************************)
(* C28: every step that stores an entry writes form->fields[num_fields] or *)
(* form->files[num_files] at an index below the number of entries the      *)
(* array has room for at that moment, and leaves the entries stored before *)
(* as they were, across a reallocation too; the counts never exceed the    *)
(* capacities.                                                             *)
(***************************************************************************)
C28_AppendStep ==
    pc = "loop" /\ pc' = "loop" =>
       /\ form'.num_fields # form.num_fields =>
             /\ form.num_fields < arrays'.fields_cap
             /\ Len(arrays'.fields) = form.num_fields + 1
             /\ SubSeq(arrays'.fields, 1, form.num_fields) = arrays.fields
       /\ form'.num_files # form.num_files =>
             /\ form.num_files < arrays'.files_cap
             /\ Len(arrays'.files) = form.num_files + 1
             /\ SubSeq(arrays'.files, 1, form.num_files) = arrays.files

C28_AppendInsideStorage ==
    /\ [](form.num_fields <= arrays.fields_cap /\ form.num_files <= arrays.files_cap)
    /\ [][C28_AppendStep]_vars

\* Three files behind one reallocation of the files and a field that fills
\* the fields as first allocated.
C28_Witness ==
    /\ ParsedOk
    /\ nfree = 0
    /\ form.num_files = INITIAL_FILE_CAPACITY + 1
    /\ arrays.files_cap = 2 * INITIAL_FILE_CAPACITY
    /\ form.num_fields = INITIAL_FIELD_CAPACITY
    /\ arrays.fields_cap = INITIAL_FIELD_CAPACITY

=============================================================================
